---- MODULE Spec2Model ----
(***************************************************************************)
(* crypto-forecast: the paginated candle fetch (data_fetcher.rs), the      *)
(* report assembly with its technical indicators (technical_analysis.rs)   *)
(* and the run pipeline (main.rs).                                         *)
(*                                                                         *)
(* Time is counted in candle intervals: the candle opened at t closes at   *)
(* t, and "close time + 1 ms" is t + 1, the open time of the next candle.  *)
(* f64 values are modelled by integers (exact arithmetic); an operation    *)
(* whose f64 result is NaN or infinite is recorded as such.                *)
(***************************************************************************)
EXTENDS Integers, Sequences, FiniteSets, TLC

\* ---------------------------------------------------------------- bounds
\* The longest series the run is given.
MaxLen == 201
\* The longest list of sentiment points.
MaxFng == 1
\* The page size of the klines endpoint (limit=1000 in the source), scaled.
PageLimit == 2
\* Candle open times the remote source may report are 0..MaxTime.
MaxTime == 3
\* The longest series a single function is applied to.
MaxCalcLen == 5
\* The most rows of a page that convert_binance_data is applied to.
MaxCalcRows == 2
\* The most characters of an analysis handed to send_to_telegram.
MaxTextChars == 7
\* The chunk size of send_to_telegram (3900 bytes in the source), scaled.
max_chunk_length == 4

VARIABLES
    \* fetch_bitcoin_data
    pc,              \* where the fetch stands: "first", "loop", "merge", "done"
    all_klines,      \* Vec<Vec<Value>>: the rows accumulated so far
    new_start_time,  \* startTime of the next pagination request
    request_count,   \* the source's request_count (1 + pages appended)
    requests,        \* the requests issued so far: <<startTime, endTime>> each
    responses,       \* how each request ended: "send_error", "status_error",
                     \* "decode_error" or "page"
    received,        \* the rows each request brought, <<>> when it brought none
    fetch_result,    \* what fetch_bitcoin_data returned
    \* main
    main_pc,              \* the statement main stands at
    only_prompt,          \* --only-prompt was given
    output_format,        \* "text" or "telegram"
    api_key_set,          \* ANTHROPIC_API_KEY is in the environment
    btc_data,             \* <<>> or <<CryptoData>>
    fear_and_greed_data,  \* <<>> or <<Vec<FearGreedData>>>
    formatted_data,       \* <<>> or <<the report>>
    prompt,               \* <<>> or <<the prompt>>
    analysis,             \* <<>> or <<the analysis>>
    emitted,              \* what the run printed or sent, in order
    failed,               \* the calls of main that returned Err
    exit,                 \* "running", "ok", "err" or "panic"
    \* one function applied to one input
    calc_pc,              \* "start", or the function that has been applied
    calc_in,              \* the input
    calc_out,             \* <<>> or <<the value returned>>
    \* send_to_telegram
    tg_pc,                \* "idle", "start", "header", "loop" or "done"
    tg_analysis,          \* the analysis: a sequence of bytes
    position,             \* the byte offset the next chunk starts at
    tg_sent,              \* the chunks sent so far, in order
    tg_pauses,            \* how often the 500 ms pause was taken
    tg_result             \* "running", "ok", "err", "panic_env" or "panic_slice"

fetch_vars ==
    <<pc, all_klines, new_start_time, request_count, requests, responses, received,
      fetch_result>>

main_vars ==
    <<main_pc, only_prompt, output_format, api_key_set, btc_data, fear_and_greed_data,
      formatted_data, prompt, analysis, emitted, failed, exit>>

calc_vars == <<calc_pc, calc_in, calc_out>>

tg_vars == <<tg_pc, tg_analysis, position, tg_sent, tg_pauses, tg_result>>

vars == <<fetch_vars, main_vars, calc_vars, tg_vars>>

\* ------------------------------------------------------- serde_json::Value
\* A Value is a JSON number (v), a JSON string (text, a sequence of
\* characters) or something else.
DigitChars == <<"0", "1", "2", "3", "4", "5", "6", "7", "8", "9">>

\* The decimal text of the integer n.
RECURSIVE Decimal(_)
Decimal(n) ==
    IF n < 0 THEN <<"-">> \o Decimal(-n)
    ELSE IF n < 10 THEN <<DigitChars[n + 1]>>
    ELSE Append(Decimal(n \div 10), DigitChars[(n % 10) + 1])

Num(n) == [k |-> "Number", v |-> n, text |-> <<>>]
\* A JSON string holding the decimal text of n.
Str(n) == [k |-> "String", v |-> 0, text |-> Decimal(n)]
\* A JSON string that is not the text of a number.
BadStr == [k |-> "String", v |-> 0, text |-> <<"x">>]
Null == [k |-> "Null", v |-> 0, text |-> <<>>]

IsDigit(c) == \E d \in 1..10 : DigitChars[d] = c

DigitOf(c) == (CHOOSE d \in 1..10 : DigitChars[d] = c) - 1

RECURSIVE digits_value(_)
digits_value(text) ==
    IF text = <<>> THEN 0
    ELSE 10 * digits_value(SubSeq(text, 1, Len(text) - 1)) + DigitOf(text[Len(text)])

\* s.parse::<f64>() on the texts that occur here: an optional sign and one
\* digit or more parse to their value, anything else is an Err. (Fractions,
\* exponents, "inf" and "NaN" also parse in Rust; no input carries them.)
parse_f64(text) ==
    LET signed == text # <<>> /\ text[1] \in {"-", "+"}
        body == IF signed THEN Tail(text) ELSE text
        negative == signed /\ text[1] = "-"
    IN IF body # <<>> /\ \A i \in 1..Len(body) : IsDigit(body[i])
       THEN [ok |-> TRUE, v |-> IF negative THEN -digits_value(body) ELSE digits_value(body)]
       ELSE [ok |-> FALSE, v |-> 0]

\* Mutant: only a JSON number is taken, a string gives 0.0.
parse_to_f64_numbers_only(value) == IF value.k = "Number" THEN value.v ELSE 0

\* data_fetcher.rs 153-159: unwrap_or(0.0) on both branches, 0.0 otherwise.
parse_to_f64(value) ==
    CASE value.k = "String" ->
            LET parsed == parse_f64(value.text)
            IN IF parsed.ok THEN parsed.v ELSE 0
      [] value.k = "Number" -> value.v
      [] OTHER -> 0

\* `x as u64` of a float: saturating, negative values become 0.
as_u64(x) == IF x < 0 THEN 0 ELSE x

\* ------------------------------------------------------------ kline rows
\* A row is a sequence of Values; field i of the source is row[i + 1]:
\* [0] open time, [1] open, [2] high, [3] low, [4] close, [5] volume,
\* [6] close time.
MkRow(n, open_time, open, high, low, close, volume, close_time) ==
    [i \in 1..n |->
        CASE i = 1 -> open_time
          [] i = 2 -> open
          [] i = 3 -> high
          [] i = 4 -> low
          [] i = 5 -> close
          [] i = 6 -> volume
          [] OTHER -> close_time]

\* ------------------------------------------------- convert_binance_data
\* Lines 170-189: the rows with 6 fields or more, each parsed field by field.
HasCandleFields(kline) == Len(kline) >= 6

convert_rows(klines) ==
    LET kept == SelectSeq(klines, HasCandleFields)
    IN [i \in 1..Len(kept) |->
           [open_time |-> parse_to_f64(kept[i][1]),
            open |-> parse_to_f64(kept[i][2]),
            high |-> parse_to_f64(kept[i][3]),
            low |-> parse_to_f64(kept[i][4]),
            close |-> parse_to_f64(kept[i][5]),
            volume |-> parse_to_f64(kept[i][6])]]

\* Mutant: the volume of a row is kept only when the row has a 7th field.
convert_binance_data_volume_gated(klines) ==
    LET c == convert_rows(klines)
        n == Len(c)
        v == convert_rows(SelectSeq(klines, LAMBDA kline : Len(kline) >= 7))
    IN [prices |-> [i \in 1..n |-> <<c[i].open_time, c[i].close>>],
        volumes |-> [i \in 1..Len(v) |-> <<v[i].open_time, v[i].volume>>],
        high_prices |-> [i \in 1..n |-> <<c[i].open_time, c[i].high>>],
        low_prices |-> [i \in 1..n |-> <<c[i].open_time, c[i].low>>],
        open_prices |-> [i \in 1..n |-> <<c[i].open_time, c[i].open>>],
        ohlc_data |-> [i \in 1..n |->
            <<c[i].open_time, c[i].open, c[i].high, c[i].low, c[i].close, c[i].volume>>]]

convert_binance_data(klines) ==
    LET c == convert_rows(klines)
        n == Len(c)
    IN [prices |-> [i \in 1..n |-> <<c[i].open_time, c[i].close>>],
        volumes |-> [i \in 1..n |-> <<c[i].open_time, c[i].volume>>],
        high_prices |-> [i \in 1..n |-> <<c[i].open_time, c[i].high>>],
        low_prices |-> [i \in 1..n |-> <<c[i].open_time, c[i].low>>],
        open_prices |-> [i \in 1..n |-> <<c[i].open_time, c[i].open>>],
        ohlc_data |-> [i \in 1..n |->
            <<c[i].open_time, c[i].open, c[i].high, c[i].low, c[i].close, c[i].volume>>]]

\* ------------------------------------------- the sort of fetch_bitcoin_data
\* The comparator handed to sort_by.
compare_klines(a, b) ==
    IF Len(a) > 0 /\ Len(b) > 0
    THEN LET time_a == parse_to_f64(a[1])
             time_b == parse_to_f64(b[1])
         IN IF time_a < time_b THEN "Less"
            ELSE IF time_a > time_b THEN "Greater" ELSE "Equal"
    ELSE "Equal"

\* slice::sort_by is stable; on short slices it is an insertion sort that
\* moves an element left past every element it is Less than.
RECURSIVE insert_tail(_, _)
insert_tail(s, x) ==
    IF s = <<>> THEN <<x>>
    ELSE IF compare_klines(x, s[Len(s)]) = "Less"
         THEN Append(insert_tail(SubSeq(s, 1, Len(s) - 1), x), s[Len(s)])
         ELSE Append(s, x)

RECURSIVE sort_klines(_)
sort_klines(s) ==
    IF s = <<>> THEN <<>>
    ELSE insert_tail(sort_klines(SubSeq(s, 1, Len(s) - 1)), s[Len(s)])

\* Lines 122-133: sort the rows, then convert them.
merge_klines(klines) == convert_binance_data(sort_klines(klines))

\* ------------------------------------------------------ fetch_bitcoin_data
\* Lines 44-45: the requested range, in candle intervals.
start_time == 0
end_time == MaxTime

Ok(data) == [status |-> "Ok", data |-> data, error |-> ""]
Err(error) == [status |-> "Err", data |-> convert_binance_data(<<>>), error |-> error]
Pending == [status |-> "Pending", data |-> convert_binance_data(<<>>), error |-> ""]

\* What the remote source may answer with. A page holds up to PageLimit rows
\* of consecutive candles from open time t0 on; prices and volumes come as
\* numeric strings. Its last row is one of:
\*   "good"   close time = the candle's own close
\*   "stale"  close time 0, not later than any request's start
\*   "bad"    a close time field that is not a number
\*   "short"  6 fields only, no close time field
LastRowKinds == {"good", "stale", "bad", "short"}

SourceRow(t, kind) ==
    MkRow(IF kind = "short" THEN 6 ELSE 7,
          Num(t), Str(1), Str(1), Str(1), Str(1), Str(1),
          CASE kind = "stale" -> Num(0)
            [] kind = "bad" -> BadStr
            [] OTHER -> Num(t))

SourcePage(k, t0, kind) ==
    [i \in 1..k |-> SourceRow(t0 + i - 1, IF i = k THEN kind ELSE "good")]

SourcePages ==
    {<<>>} \cup {SourcePage(k, t0, kind) :
                    k \in 1..PageLimit, t0 \in 0..MaxTime, kind \in LastRowKinds}

Last(s) == s[Len(s)]

\* Mutant: the next request starts at the close time itself.
next_start_no_step(last_candle) == as_u64(parse_to_f64(last_candle[7]))

\* Lines 75 and 100: the close time of the last candle, plus 1 ms.
next_start(last_candle) == as_u64(parse_to_f64(last_candle[7])) + 1

CeilDiv(a, b) == (a + b - 1) \div b

\* The number of requests that covers the range page by page, plus the one
\* that finds the range exhausted.
RequestBound == CeilDiv(end_time - start_time, PageLimit) + 1

\* The model follows the pagination loop until one request past RequestBound.
CanAppend == Len(requests) < RequestBound

\* An input of no function: nothing is applied while the fetch or the run is
\* followed.
NoInput ==
    [fn |-> "none", prices |-> <<>>, volumes |-> <<>>, nums |-> <<>>, klines |-> <<>>,
     response |-> <<>>]

CalcIdle ==
    /\ calc_pc = "idle"
    /\ calc_in = NoInput
    /\ calc_out = <<>>

\* send_to_telegram is not running.
TelegramIdle ==
    /\ tg_pc = "idle"
    /\ tg_analysis = <<>>
    /\ position = 0
    /\ tg_sent = <<>>
    /\ tg_pauses = 0
    /\ tg_result = "running"

\* The run's variables while the fetch alone is followed.
MainIdle ==
    /\ main_pc = "idle"
    /\ only_prompt = FALSE
    /\ output_format = "text"
    /\ api_key_set = TRUE
    /\ btc_data = <<>>
    /\ fear_and_greed_data = <<>>
    /\ formatted_data = <<>>
    /\ prompt = <<>>
    /\ analysis = <<>>
    /\ emitted = <<>>
    /\ failed = {}
    /\ exit = "running"

\* The locals of fetch_bitcoin_data before its first request.
FetchStart ==
    /\ pc = "first"
    /\ all_klines = <<>>
    /\ new_start_time = 0
    /\ request_count = 1
    /\ requests = <<>>
    /\ responses = <<>>
    /\ received = <<>>
    /\ fetch_result = Pending

FetchInit == FetchStart /\ MainIdle /\ CalcIdle /\ TelegramIdle

\* Mutant: a failed first request is treated like a failed pagination request,
\* "just use what we have".
FirstSendFails_lenient ==
    /\ pc = "first"
    /\ requests' = Append(requests, <<start_time, end_time>>)
    /\ responses' = Append(responses, "send_error")
    /\ received' = Append(received, <<>>)
    /\ pc' = "merge"
    /\ UNCHANGED <<all_klines, new_start_time, request_count, fetch_result>>
    /\ UNCHANGED <<main_vars, calc_vars, tg_vars>>

\* Line 58: client.get(&url).send().await? fails.
FirstSendFails ==
    /\ pc = "first"
    /\ requests' = Append(requests, <<start_time, end_time>>)
    /\ responses' = Append(responses, "send_error")
    /\ received' = Append(received, <<>>)
    /\ fetch_result' = Err("transport")
    /\ pc' = "done"
    /\ UNCHANGED <<all_klines, new_start_time, request_count>>
    /\ UNCHANGED <<main_vars, calc_vars, tg_vars>>

\* Lines 60, 147-149: the status is not a success.
FirstStatusFails ==
    /\ pc = "first"
    /\ requests' = Append(requests, <<start_time, end_time>>)
    /\ responses' = Append(responses, "status_error")
    /\ received' = Append(received, <<>>)
    /\ fetch_result' = Err("status")
    /\ pc' = "done"
    /\ UNCHANGED <<all_klines, new_start_time, request_count>>
    /\ UNCHANGED <<main_vars, calc_vars, tg_vars>>

\* Line 61: response.json().await? fails.
FirstDecodeFails ==
    /\ pc = "first"
    /\ requests' = Append(requests, <<start_time, end_time>>)
    /\ responses' = Append(responses, "decode_error")
    /\ received' = Append(received, <<>>)
    /\ fetch_result' = Err("decode")
    /\ pc' = "done"
    /\ UNCHANGED <<all_klines, new_start_time, request_count>>
    /\ UNCHANGED <<main_vars, calc_vars, tg_vars>>

\* Lines 61-78: the first page arrives; pagination is entered when it is full
\* and its last row has a close time field.
FirstPageOk ==
    /\ pc = "first"
    /\ \E klines \in SourcePages :
        /\ requests' = Append(requests, <<start_time, end_time>>)
        /\ responses' = Append(responses, "page")
        /\ received' = Append(received, klines)
        /\ all_klines' = klines
        /\ IF Len(klines) = PageLimit /\ Len(Last(klines)) > 6
           THEN /\ new_start_time' = next_start(Last(klines))
                /\ pc' = "loop"
           ELSE /\ new_start_time' = new_start_time
                /\ pc' = "merge"
        /\ UNCHANGED <<request_count, fetch_result>>
    /\ UNCHANGED <<main_vars, calc_vars, tg_vars>>

\* Line 79: while new_start_time < end_time.
LoopExit ==
    /\ pc = "loop"
    /\ ~(new_start_time < end_time)
    /\ pc' = "merge"
    /\ UNCHANGED <<all_klines, new_start_time, request_count, requests, responses,
                   received, fetch_result>>
    /\ UNCHANGED <<main_vars, calc_vars, tg_vars>>

\* Line 85: client.get(&pagination_url).send().await? fails.
PageSendFails ==
    /\ pc = "loop"
    /\ new_start_time < end_time
    /\ requests' = Append(requests, <<new_start_time, end_time>>)
    /\ responses' = Append(responses, "send_error")
    /\ received' = Append(received, <<>>)
    /\ fetch_result' = Err("transport")
    /\ pc' = "done"
    /\ UNCHANGED <<all_klines, new_start_time, request_count>>
    /\ UNCHANGED <<main_vars, calc_vars, tg_vars>>

\* Lines 87, 111-116: the status is not a success; "just use what we have".
PageStatusFails ==
    /\ pc = "loop"
    /\ new_start_time < end_time
    /\ requests' = Append(requests, <<new_start_time, end_time>>)
    /\ responses' = Append(responses, "status_error")
    /\ received' = Append(received, <<>>)
    /\ pc' = "merge"
    /\ UNCHANGED <<all_klines, new_start_time, request_count, fetch_result>>
    /\ UNCHANGED <<main_vars, calc_vars, tg_vars>>

\* Line 88: pagination_response.json().await? fails.
PageDecodeFails ==
    /\ pc = "loop"
    /\ new_start_time < end_time
    /\ requests' = Append(requests, <<new_start_time, end_time>>)
    /\ responses' = Append(responses, "decode_error")
    /\ received' = Append(received, <<>>)
    /\ fetch_result' = Err("decode")
    /\ pc' = "done"
    /\ UNCHANGED <<all_klines, new_start_time, request_count>>
    /\ UNCHANGED <<main_vars, calc_vars, tg_vars>>

\* Lines 93-95: an empty page ends the loop.
PageEmpty ==
    /\ pc = "loop"
    /\ new_start_time < end_time
    /\ requests' = Append(requests, <<new_start_time, end_time>>)
    /\ responses' = Append(responses, "page")
    /\ received' = Append(received, <<>>)
    /\ pc' = "merge"
    /\ UNCHANGED <<all_klines, new_start_time, request_count, fetch_result>>
    /\ UNCHANGED <<main_vars, calc_vars, tg_vars>>

\* Lines 98-103: the page's last row has no close time field; the loop ends
\* before the page is appended.
PageIncomplete ==
    /\ pc = "loop"
    /\ new_start_time < end_time
    /\ \E additional_klines \in SourcePages :
        /\ additional_klines # <<>>
        /\ ~(Len(Last(additional_klines)) > 6)
        /\ requests' = Append(requests, <<new_start_time, end_time>>)
        /\ responses' = Append(responses, "page")
        /\ received' = Append(received, additional_klines)
        /\ pc' = "merge"
    /\ UNCHANGED <<all_klines, new_start_time, request_count, fetch_result>>
    /\ UNCHANGED <<main_vars, calc_vars, tg_vars>>

\* Lines 98-110: the page is appended and the loop goes on.
PageAppended ==
    /\ pc = "loop"
    /\ new_start_time < end_time
    /\ CanAppend
    /\ \E additional_klines \in SourcePages :
        /\ additional_klines # <<>>
        /\ Len(Last(additional_klines)) > 6
        /\ requests' = Append(requests, <<new_start_time, end_time>>)
        /\ responses' = Append(responses, "page")
        /\ received' = Append(received, additional_klines)
        /\ new_start_time' = next_start(Last(additional_klines))
        /\ all_klines' = all_klines \o additional_klines
        /\ request_count' = request_count + 1
    /\ UNCHANGED <<pc, fetch_result>>
    /\ UNCHANGED <<main_vars, calc_vars, tg_vars>>

\* Lines 122-146: sort, convert, return.
SortAndConvert ==
    /\ pc = "merge"
    /\ fetch_result' = Ok(merge_klines(all_klines))
    /\ pc' = "done"
    /\ UNCHANGED <<all_klines, new_start_time, request_count, requests, responses,
                   received>>
    /\ UNCHANGED <<main_vars, calc_vars, tg_vars>>

FetchNext ==
    \/ FirstSendFails
    \/ FirstStatusFails
    \/ FirstDecodeFails
    \/ FirstPageOk
    \/ LoopExit
    \/ PageSendFails
    \/ PageStatusFails
    \/ PageDecodeFails
    \/ PageEmpty
    \/ PageIncomplete
    \/ PageAppended
    \/ SortAndConvert

SpecFetch == FetchInit /\ [][FetchNext]_vars

\* ------------------------------------------------- claims on the fetch
Returned == pc = "done" /\ fetch_result.status = "Ok"

IsFailure(response) == response \in {"send_error", "status_error", "decode_error"}

\* C1: the series fetch_bitcoin_data returns is strictly ascending in
\* open_time, so no two of its candles share an open_time.
C1_MergedStrictlyAscending ==
    Returned =>
        \A i \in 1..(Len(fetch_result.data.prices) - 1) :
            fetch_result.data.prices[i][1] < fetch_result.data.prices[i + 1][1]

\* C2: the number of page requests stays within the bound the requested
\* range gives, whatever the remote source answers.
C2_RequestsBounded == Len(requests) <= RequestBound

\* C3: a pagination request that fails, in whichever way, leaves the fetch
\* returning successfully.
C3_LatePageFailureNotFatal ==
    (pc = "done" /\ \E i \in 2..Len(responses) : IsFailure(responses[i]))
        => fetch_result.status = "Ok"

\* C4: when the first page request fails, the fetch returns an error, issues
\* no pagination request and returns no series.
C4_FirstPageFailureFatal ==
    (pc \in {"merge", "done"} /\ IsFailure(responses[1]))
        => /\ pc = "done"
           /\ fetch_result.status = "Err"
           /\ Len(requests) = 1
           /\ Len(fetch_result.data.prices) = 0

C4_Witness ==
    /\ pc = "done"
    /\ responses = <<"decode_error">>
    /\ fetch_result.status = "Err"

\* C11: a request after the first is issued only when the page before it held
\* exactly PageLimit rows.
C11_NextPageOnlyAfterFullPage ==
    \A i \in 2..Len(requests) : Len(received[i - 1]) = PageLimit

\* C12: every request ends at end_time; each request after the first starts
\* one past the close time of the last row of the page before it, and is
\* issued once that page has returned.
C12_NextStartFromLastClose ==
    /\ Len(received) = Len(requests)
    /\ \A i \in 1..Len(requests) : requests[i][2] = end_time
    /\ \A i \in 2..Len(requests) :
           /\ received[i - 1] # <<>>
           /\ Len(Last(received[i - 1])) > 6
           /\ requests[i][1] = as_u64(parse_to_f64(Last(received[i - 1])[7])) + 1

C12_Witness ==
    /\ Len(requests) >= 3
    /\ requests[2][1] = 2
    /\ requests[3][1] = 1

\* C27: each pagination request starts later than the request before it,
\* whatever page the source returned in between.
C27_StartStrictlyIncreasing ==
    \A i \in 2..Len(requests) : requests[i][1] > requests[i - 1][1]

\* The candles of the non-empty pages that arrived, first page included.
RECURSIVE CandlesIn(_)
CandlesIn(pages) ==
    IF pages = <<>> THEN 0
    ELSE Len(SelectSeq(pages[1], HasCandleFields)) + CandlesIn(Tail(pages))

ReceivedCandles == CandlesIn(received)

\* C28: the returned series holds every candle of every page that was
\* received, the page on which pagination stopped included.
C28_NoReceivedPageDiscarded ==
    Returned => Len(fetch_result.data.prices) = ReceivedCandles

\* =========================================================================
\* technical_analysis.rs: the report
\* =========================================================================
Min(a, b) == IF a < b THEN a ELSE b
Max(a, b) == IF a > b THEN a ELSE b
Abs(a) == IF a < 0 THEN -a ELSE a

\* s[lo] + ... + s[hi], summed by halves.
RECURSIVE SumRange(_, _, _)
SumRange(s, lo, hi) ==
    IF lo > hi THEN 0
    ELSE IF lo = hi THEN s[lo]
    ELSE LET mid == (lo + hi) \div 2
         IN SumRange(s, lo, mid) + SumRange(s, mid + 1, hi)

SumSqRange(s, lo, hi) == SumRange([i \in 1..Len(s) |-> s[i] * s[i]], lo, hi)

\* x / den in f64 is NaN or infinite exactly when den is 0.
NotFinite(den) == den = 0

\* One line of the report: the section it belongs to, the text that names
\* it, and whether a number printed on it is NaN or infinite.
Line(section, tag, nan) == [section |-> section, tag |-> tag, nan |-> nan]

Repeat(k, line) == [i \in 1..k |-> line]

\* Lines 16-109: summary statistics and the last 24 candles.
summary_lines(data) ==
    LET n == Len(data.ohlc_data)
        close_prices == [i \in 1..n |-> data.ohlc_data[i][5]]
        sum_close == SumRange(close_prices, 1, n)
        price_30_days_ago == close_prices[n - 30 + 1]
        price_7_days_ago == close_prices[n - Min(7, n) + 1]
    IN <<Line("summary", "=== BITCOIN HISTORICAL DATA SUMMARY ===", FALSE),
         Line("summary", "5 Highest Bitcoin Prices (All-Time):", FALSE)>>
       \o Repeat(Min(5, n), Line("summary", "highest", FALSE))
       \o <<Line("summary", "5 Lowest Bitcoin Prices (All-Time):", FALSE)>>
       \o Repeat(Min(5, n), Line("summary", "lowest", FALSE))
       \o <<Line("summary", "Key Statistics:", FALSE),
            Line("summary", "Average Price", FALSE),
            Line("summary", "All-Time High", FALSE),
            Line("summary", "All-Time Low", FALSE),
            Line("summary", "Price Range", FALSE),
            \* (std_dev / avg_close) * 100.0, avg_close = sum / len
            Line("summary", "Price Volatility (Std Dev)", NotFinite(sum_close)),
            Line("summary", "Average Daily Volume", FALSE)>>
       \o (IF n >= 30
           THEN <<Line("summary", "30-Day Price Change", NotFinite(price_30_days_ago)),
                  Line("summary", "7-Day Price Change", NotFinite(price_7_days_ago))>>
           ELSE <<>>)

recent_lines(data) ==
    LET n == Len(data.ohlc_data)
        start_idx == IF n > 24 THEN n - 24 ELSE 0
    IN <<Line("recent", "=== RECENT BITCOIN OHLCV DATA (LAST 24 RECORDS) ===", FALSE),
         Line("recent", "Date,Open,High,Low,Close,Volume", FALSE)>>
       \o Repeat(n - start_idx, Line("recent", "candle", FALSE))

\* Lines 110-124: no OHLC rows.
fallback_lines(data) ==
    <<Line("fallback", "Bitcoin price data (timestamp, price in USD)", FALSE)>>
    \o Repeat(Len(data.prices), Line("fallback", "price", FALSE))

data_lines(data) ==
    IF data.ohlc_data # <<>>
    THEN summary_lines(data) \o recent_lines(data)
    ELSE fallback_lines(data)

\* ---------------------------------------- calculate_technical_indicators
\* The values kept "for the last 5 periods": one per index i >= len - 5.
Kept(n) == Min(5, n)

\* A block of the indicator section: its heading, one group of lines for each
\* kept period, and the closing lines.
Block(heading, periods, closing) ==
    <<Line("indicators", heading, FALSE)>> \o periods \o closing

RECURSIVE Flatten(_)
Flatten(ss) == IF ss = <<>> THEN <<>> ELSE ss[1] \o Flatten(Tail(ss))

PerPeriod(k, group) == Flatten([i \in 1..k |-> group])

IndLine(tag) == Line("indicators", tag, FALSE)

\* SimpleMovingAverage(period) after the whole series: the mean of the last
\* min(period, len) prices, given here as its sum and its count.
sma_sum(price_values, period) ==
    SumRange(price_values, Max(1, Len(price_values) - period + 1), Len(price_values))

sma_count(price_values, period) == Min(period, Len(price_values))

\* most_recent_sma50 > most_recent_sma200, the two means compared crosswise.
sma50_above_sma200(price_values) ==
    sma_sum(price_values, 50) * sma_count(price_values, 200)
        > sma_sum(price_values, 200) * sma_count(price_values, 50)

\* Mutant: SMA(200) is compared with SMA(50), the wrong way round.
long_term_trend_inverted(price_values) ==
    IF sma_sum(price_values, 200) * sma_count(price_values, 50)
           > sma_sum(price_values, 50) * sma_count(price_values, 200)
    THEN "Long-term Trend: Bullish (50 above 200, Golden Cross active)"
    ELSE "Long-term Trend: Bearish (50 below 200, Death Cross active)"

\* Lines 251-255.
long_term_trend(price_values) ==
    IF sma50_above_sma200(price_values)
    THEN "Long-term Trend: Bullish (50 above 200, Golden Cross active)"
    ELSE "Long-term Trend: Bearish (50 below 200, Death Cross active)"

\* Lines 182-326.
sma_block(price_values) ==
    LET n == Len(price_values)
    IN IF n >= 200
       THEN Block("Simple Moving Averages (Last 5 periods):",
                  PerPeriod(Kept(n), <<IndLine("SMA (7-period)"), IndLine("SMA (20-period)"),
                                       IndLine("SMA (50-period)"), IndLine("SMA (200-period)")>>),
                  <<IndLine("SMA Trend Analysis:"), IndLine("Short-term Trend"),
                    IndLine(long_term_trend(price_values)),
                    IndLine("Price relative to SMAs")>>)
       ELSE IF n >= 20
       THEN Block("Simple Moving Averages (Last 5 periods):",
                  PerPeriod(Kept(n), <<IndLine("SMA (7-day)"), IndLine("SMA (20-day)")>>),
                  <<IndLine("SMA Trend Analysis:"), IndLine("Trend")>>)
       ELSE <<>>

\* Lines 328-465. The "Alert:" line of 403-408, which some EMA values add to
\* the 200-candle branch, is left out.
ema_block(price_values) ==
    LET n == Len(price_values)
    IN IF n >= 200
       THEN Block("Exponential Moving Averages (Last 5 periods):",
                  PerPeriod(Kept(n), <<IndLine("EMA (12-period)"), IndLine("EMA (26-period)"),
                                       IndLine("EMA (50-period)"), IndLine("EMA (200-period)")>>),
                  <<IndLine("EMA Trend Analysis:"), IndLine("Short-term EMA Trend"),
                    IndLine("Long-term EMA Trend")>>)
       ELSE IF n >= 20
       THEN Block("Exponential Moving Averages (Last 5 periods):",
                  PerPeriod(Kept(n), <<IndLine("EMA (12-day)"), IndLine("EMA (26-day)")>>),
                  <<IndLine("EMA Trend Analysis:"), IndLine("Trend")>>)
       ELSE <<>>

\* Lines 467-530.
rsi_block(price_values) ==
    LET n == Len(price_values)
    IN IF n >= 14
       THEN Block("RSI With EMA (14-day) - Last 5 periods:",
                  PerPeriod(Kept(n), <<IndLine("RSI")>>),
                  IF Kept(n) >= 2 THEN <<IndLine("RSI Trend")>> ELSE <<>>)
       ELSE <<>>

\* Lines 532-618.
macd_block(price_values) ==
    LET n == Len(price_values)
    IN IF n >= 35
       THEN Block("MACD (12, 26, 9) - Last 5 periods:",
                  PerPeriod(Kept(n), <<IndLine("MACD Line"), IndLine("Signal Line"),
                                       IndLine("Histogram"), IndLine("Indication")>>),
                  IF Kept(n) >= 2
                  THEN <<IndLine("MACD Trend Analysis:"), IndLine("Signal"), IndLine("Momentum")>>
                  ELSE <<>>)
       ELSE <<>>

\* BollingerBands(20, 2.0) at 1-based index j: upper - lower = 4 * sd of the
\* last min(j, 20) prices, which is 0 exactly when count * sum(x^2) = sum(x)^2.
band_width_numerator(price_values, j) ==
    LET lo == Max(1, j - 20 + 1)
        count == j - lo + 1
        sum == SumRange(price_values, lo, j)
    IN count * SumSqRange(price_values, lo, j) - sum * sum

\* Lines 620-698.
bollinger_block(price_values) ==
    LET n == Len(price_values)
    IN IF n >= 20
       THEN Block("Bollinger Bands (20, 2) - Last 5 periods:",
                  Flatten([i \in 1..Kept(n) |->
                      <<IndLine("Upper Band"), IndLine("Middle Band (SMA)"),
                        IndLine("Lower Band"), IndLine("Price"),
                        \* (price - lower) / band_width * 100.0
                        Line("indicators", "Position",
                             NotFinite(band_width_numerator(price_values, n - Kept(n) + i))),
                        IndLine("Indication")>>]),
                  IF Kept(n) >= 2
                  THEN <<IndLine("Bollinger Bands Volatility Analysis:"), IndLine("Volatility")>>
                  ELSE <<>>)
       ELSE <<>>

\* Mutant: the volume of the candle before is the one added or subtracted.
obv_step_previous_volume(price_values, volume_values, i) ==
    IF price_values[i] > price_values[i - 1] THEN volume_values[i - 1]
    ELSE IF price_values[i] < price_values[i - 1] THEN -volume_values[i - 1]
    ELSE 0

\* Lines 707-720: what candle i (1-based, i >= 2) adds to the running sum.
obv_step(price_values, volume_values, i) ==
    IF price_values[i] > price_values[i - 1] THEN volume_values[i]
    ELSE IF price_values[i] < price_values[i - 1] THEN -volume_values[i]
    ELSE 0

\* Lines 702-720: obv_values[i], 1-based: 0 for the first candle, then the
\* running sum of the steps.
obv_values(price_values, volume_values, i) ==
    SumRange([j \in 1..Len(price_values) |->
                 IF j = 1 THEN 0 ELSE obv_step(price_values, volume_values, j)], 1, i)

\* Lines 700-777.
obv_block(price_values, volume_values) ==
    LET n == Len(price_values)
        last_obv == obv_values(price_values, volume_values, n)
    IN IF price_values # <<>> /\ volume_values # <<>> /\ n = Len(volume_values)
       THEN IF n >= 5
            THEN Block("On Balance Volume (OBV) - Last 5 periods:",
                       Flatten([i \in 1..5 |->
                           LET current_obv == obv_values(price_values, volume_values, n - 5 + i)
                           IN <<IndLine("OBV"),
                                \* (current - prev) / current_obv.abs().max(1.0) * 100.0
                                Line("indicators", "Change", NotFinite(Max(Abs(current_obv), 1))),
                                IndLine("Indication")>>]),
                       <<IndLine("OBV 5-Period Trend Analysis:"),
                         \* (last - obv_5_period_ago) / last_obv.abs().max(1.0) * 100.0
                         Line("indicators", "OBV 5-period change",
                              NotFinite(Max(Abs(last_obv), 1)))>>)
            ELSE <<>>
       ELSE <<>>

\* Lines 779-865. atr_values holds one entry for each 0-based i in
\* 1..len-1 with i >= len - 5, paired with price_values[i].
atr_block(price_values, high_values, low_values) ==
    LET n == Len(price_values)
        first == Max(2, n - 5 + 1)
        kept == IF first > n THEN <<>>
                ELSE [i \in 1..(n - first + 1) |-> price_values[first + i - 1]]
    IN IF Len(high_values) >= 14 /\ Len(low_values) >= 14 /\ n >= 14
       THEN IF Len(kept) >= 1
            THEN Block("Average True Range (ATR) - Last 5 periods:",
                       Flatten([i \in 1..Min(5, Len(kept)) |->
                           <<IndLine("ATR (14-day)"),
                             \* atr_val / price * 100.0
                             Line("indicators", "ATR as % of price", NotFinite(kept[i])),
                             IndLine("Volatility")>>]),
                       IF Len(kept) >= 2
                       THEN <<IndLine("ATR Trend Analysis:"), IndLine("Volatility")>>
                       ELSE <<>>)
            ELSE <<>>
       ELSE <<>>

\* The passes that drive the indicators, each as the candles (1-based, in the
\* order of the loop) whose values are handed to the indicator's next().
\* Lines 203-216, and the same loop for EMA, RSI, MACD and Bollinger Bands:
\* for (i, &price) in price_values.iter().enumerate().
enumerate_pass(price_values) == [i \in 1..Len(price_values) |-> i]

\* Lines 794-811: for i in 1..price_values.len(), where high and low reach.
atr_pass(price_values, high_values, low_values) ==
    SelectSeq([i \in 1..Len(price_values) |-> i],
              LAMBDA i : i >= 2 /\ i <= Len(high_values) /\ i <= Len(low_values))

\* Lines 196-229, 787-825: the values kept are those of the candles
\* i >= len - 5 of the pass, the timestamps are the open times of the last 5
\* candles, and the i-th kept value is displayed with the i-th timestamp.
displayed(pass, prices) ==
    LET kept == SelectSeq(pass, LAMBDA i : i >= Len(prices) - 5 + 1)
        timestamps == IF Len(prices) >= 5
                      THEN [i \in 1..5 |-> prices[Len(prices) - 5 + i][1]]
                      ELSE <<>>
    IN [i \in 1..Min(5, Len(kept)) |->
           [candle |-> kept[i],
            date |-> IF i <= Len(timestamps) THEN <<timestamps[i]>> ELSE <<>>]]

\* Lines 867-870, 876-886: printed for every series, (0.0, 0.0) when empty.
support_resistance_lines(price_values) ==
    <<IndLine("Support level"), IndLine("Resistance level")>>

calculate_technical_indicators(data) ==
    LET price_values == [i \in 1..Len(data.prices) |-> data.prices[i][2]]
        volume_values == [i \in 1..Len(data.volumes) |-> data.volumes[i][2]]
        high_values == IF data.high_prices # <<>>
                       THEN [i \in 1..Len(data.high_prices) |-> data.high_prices[i][2]]
                       ELSE price_values
        low_values == IF data.low_prices # <<>>
                      THEN [i \in 1..Len(data.low_prices) |-> data.low_prices[i][2]]
                      ELSE price_values
    IN <<Line("indicators", "=== TECHNICAL INDICATORS ===", FALSE)>>
       \o sma_block(price_values)
       \o ema_block(price_values)
       \o rsi_block(price_values)
       \o macd_block(price_values)
       \o bollinger_block(price_values)
       \o obv_block(price_values, volume_values)
       \o atr_block(price_values, high_values, low_values)
       \o support_resistance_lines(price_values)

\* ------------------------------------------------- format_fear_greed_data
\* A FearGreedData entry; its timestamp is a string that may or may not be
\* the text of an i64.
FearGreedData(ts_parses, ts) ==
    [value |-> "50", value_classification |-> "Neutral",
     timestamp |-> [ok |-> ts_parses, v |-> ts]]

\* entry.timestamp.parse::<i64>().unwrap() panics on a string that is no i64.
fear_greed_panics(fng) == \E i \in 1..Len(fng) : ~fng[i].timestamp.ok

format_fear_greed_data(fng) ==
    <<Line("sentiment", "=== FEAR & GREED INDEX ===", FALSE),
      Line("sentiment", "Date: Index classification - Index value", FALSE)>>
    \o Repeat(Len(fng), Line("sentiment", "entry", FALSE))

\* ------------------------------------------------ format_data_for_analysis
Report(lines) == [panicked |-> FALSE, lines |-> lines]
Panic == [panicked |-> TRUE, lines |-> <<>>]

\* Mutant: the sentiment section is pushed before the indicators.
format_data_for_analysis_reordered(data, fng) ==
    IF fear_greed_panics(fng) THEN Panic
    ELSE Report(data_lines(data)
                \o format_fear_greed_data(fng)
                \o calculate_technical_indicators(data))

\* Lines 12-133.
format_data_for_analysis(data, fng) ==
    IF fear_greed_panics(fng) THEN Panic
    ELSE Report(data_lines(data)
                \o calculate_technical_indicators(data)
                \o format_fear_greed_data(fng))

\* =========================================================================
\* main.rs: one run
\* =========================================================================
\* What fetch_bitcoin_trading_data hands to main when it succeeds: MaxLen or
\* fewer candles, one per interval, of one of these shapes:
\*   "zero"    every price and volume field unparsable, hence 0.0
\*   "flat"    one price throughout
\*   "zigzag"  the close alternating between two prices
\*   "rising"  the close going up by one from candle to candle
\*   "falling" the close going down by one from candle to candle
Shapes == {"zero", "flat", "zigzag", "rising", "falling"}

SeriesRow(shape, i) ==
    LET close == CASE shape = "flat" -> 5
                   [] shape = "rising" -> 5 + i
                   [] shape = "falling" -> 5 + MaxLen + 1 - i
                   [] OTHER -> 5 + (i % 2)
    IN IF shape = "zero"
       THEN MkRow(7, Num(i - 1), BadStr, BadStr, BadStr, BadStr, BadStr, Num(i - 1))
       ELSE MkRow(7, Num(i - 1), Str(close), Str(close + 1), Str(close - 1), Str(close),
                  Str(10), Num(i - 1))

SeriesRows(n, shape) == [i \in 1..n |-> SeriesRow(shape, i)]

\* The rows are in ascending open_time order, which the sort leaves as it is.
FetchedSeries ==
    {convert_binance_data(SeriesRows(n, shape)) : n \in 0..MaxLen, shape \in Shapes}

\* What fetch_fear_greed_index_data hands to main when it succeeds.
RECURSIVE SeqsUpTo(_, _)
SeqsUpTo(S, k) ==
    IF k = 0 THEN {<<>>}
    ELSE LET shorter == SeqsUpTo(S, k - 1)
         IN shorter \cup {Append(q, x) : q \in {r \in shorter : Len(r) = k - 1}, x \in S}

FetchedSentiment == SeqsUpTo({FearGreedData(TRUE, 1), FearGreedData(FALSE, 0)}, MaxFng)

\* Lines 17-29: "--only-prompt", or an output format, or nothing.
MainInit ==
    /\ main_pc = "start"
    /\ only_prompt \in BOOLEAN
    /\ output_format \in {"text", "telegram"}
    /\ only_prompt => output_format = "text"
    /\ api_key_set \in BOOLEAN
    /\ btc_data = <<>>
    /\ fear_and_greed_data = <<>>
    /\ formatted_data = <<>>
    /\ prompt = <<>>
    /\ analysis = <<>>
    /\ emitted = <<>>
    /\ failed = {}
    /\ exit = "running"
    /\ FetchStart
    /\ CalcIdle
    /\ TelegramIdle

Stop(how) ==
    /\ main_pc' = "exit"
    /\ exit' = how

\* Lines 32-37: env::var("ANTHROPIC_API_KEY").expect(..) when it is needed.
ApiKeyMissing ==
    /\ main_pc = "start"
    /\ ~only_prompt /\ ~api_key_set
    /\ Stop("panic")
    /\ UNCHANGED <<only_prompt, output_format, api_key_set, btc_data, fear_and_greed_data,
                   formatted_data, prompt, analysis, emitted>>
    /\ UNCHANGED <<fetch_vars, calc_vars, tg_vars>>
    /\ UNCHANGED failed

ApiKeyRead ==
    /\ main_pc = "start"
    /\ only_prompt \/ api_key_set
    /\ main_pc' = "fetch_btc"
    /\ UNCHANGED <<only_prompt, output_format, api_key_set, btc_data, fear_and_greed_data,
                   formatted_data, prompt, analysis, emitted, exit>>
    /\ UNCHANGED <<fetch_vars, calc_vars, tg_vars>>
    /\ UNCHANGED failed

\* Mutant: the error of the candle fetch is swallowed and the run goes on with
\* an empty series.
FetchBitcoinFails_swallowed ==
    /\ main_pc = "fetch_btc"
    /\ btc_data' = <<convert_binance_data(<<>>)>>
    /\ main_pc' = "fetch_fng"
    /\ UNCHANGED <<only_prompt, output_format, api_key_set, fear_and_greed_data,
                   formatted_data, prompt, analysis, emitted, exit>>
    /\ UNCHANGED <<fetch_vars, calc_vars, tg_vars>>
    /\ failed' = failed \cup {"fetch_bitcoin_trading_data"}

\* Line 48: fetch_bitcoin_trading_data(..).await? returns Err.
FetchBitcoinFails ==
    /\ main_pc = "fetch_btc"
    /\ Stop("err")
    /\ UNCHANGED <<only_prompt, output_format, api_key_set, btc_data, fear_and_greed_data,
                   formatted_data, prompt, analysis, emitted>>
    /\ UNCHANGED <<fetch_vars, calc_vars, tg_vars>>
    /\ failed' = failed \cup {"fetch_bitcoin_trading_data"}

\* Line 48: it returns Ok(data).
FetchBitcoinOk ==
    /\ main_pc = "fetch_btc"
    /\ \E data \in FetchedSeries : btc_data' = <<data>>
    /\ main_pc' = "fetch_fng"
    /\ UNCHANGED <<only_prompt, output_format, api_key_set, fear_and_greed_data,
                   formatted_data, prompt, analysis, emitted, exit>>
    /\ UNCHANGED <<fetch_vars, calc_vars, tg_vars>>
    /\ UNCHANGED failed

\* Line 49: fetch_fear_greed_index_data().await? returns Err.
FetchFearGreedFails ==
    /\ main_pc = "fetch_fng"
    /\ Stop("err")
    /\ UNCHANGED <<only_prompt, output_format, api_key_set, btc_data, fear_and_greed_data,
                   formatted_data, prompt, analysis, emitted>>
    /\ UNCHANGED <<fetch_vars, calc_vars, tg_vars>>
    /\ failed' = failed \cup {"fetch_fear_greed_index_data"}

\* Line 49: it returns Ok(points).
FetchFearGreedOk ==
    /\ main_pc = "fetch_fng"
    /\ \E fng \in FetchedSentiment : fear_and_greed_data' = <<fng>>
    /\ main_pc' = "format"
    /\ UNCHANGED <<only_prompt, output_format, api_key_set, btc_data, formatted_data,
                   prompt, analysis, emitted, exit>>
    /\ UNCHANGED <<fetch_vars, calc_vars, tg_vars>>
    /\ UNCHANGED failed

\* Line 54: format_data_for_analysis panics.
FormatPanics ==
    /\ main_pc = "format"
    /\ format_data_for_analysis(btc_data[1], fear_and_greed_data[1]).panicked
    /\ Stop("panic")
    /\ UNCHANGED <<only_prompt, output_format, api_key_set, btc_data, fear_and_greed_data,
                   formatted_data, prompt, analysis, emitted>>
    /\ UNCHANGED <<fetch_vars, calc_vars, tg_vars>>
    /\ UNCHANGED failed

\* Mutant: the candles are sorted in place, latest first, for the summary.
FormatData_sorts_in_place ==
    /\ main_pc = "format"
    /\ LET report == format_data_for_analysis(btc_data[1], fear_and_greed_data[1])
           rows == btc_data[1].ohlc_data
       IN /\ ~report.panicked
          /\ formatted_data' = <<report.lines>>
          /\ btc_data' = <<[btc_data[1] EXCEPT
                               !.ohlc_data = [i \in 1..Len(rows) |-> rows[Len(rows) + 1 - i]]]>>
    /\ main_pc' = "prompt"
    /\ UNCHANGED <<only_prompt, output_format, api_key_set, fear_and_greed_data,
                   prompt, analysis, emitted, exit>>
    /\ UNCHANGED <<fetch_vars, calc_vars, tg_vars>>
    /\ UNCHANGED failed

\* Line 54: format_data_for_analysis returns the report.
FormatData ==
    /\ main_pc = "format"
    /\ LET report == format_data_for_analysis(btc_data[1], fear_and_greed_data[1])
       IN /\ ~report.panicked
          /\ formatted_data' = <<report.lines>>
    /\ main_pc' = "prompt"
    /\ UNCHANGED <<only_prompt, output_format, api_key_set, btc_data, fear_and_greed_data,
                   prompt, analysis, emitted, exit>>
    /\ UNCHANGED <<fetch_vars, calc_vars, tg_vars>>
    /\ UNCHANGED failed

\* prompt_generator.rs: the report wrapped in the fixed template.
generate_trading_recommendation_prompt(data) == [historical_data |-> data]

\* ai_client.rs 113-185. The prompt is searched as its lines; the template
\* around the report holds neither marker and no "===".
\* The lines of a report in which "===" is found.
SectionHeadings ==
    {"=== BITCOIN HISTORICAL DATA SUMMARY ===",
     "=== RECENT BITCOIN OHLCV DATA (LAST 24 RECORDS) ===",
     "=== TECHNICAL INDICATORS ===",
     "=== FEAR & GREED INDEX ==="}

\* str::find, by line: the first line in which the text is found, 0 for None.
find_marker(lines, marker) ==
    LET at == {i \in 1..Len(lines) : lines[i].tag = marker}
    IN IF at = {} THEN 0 ELSE CHOOSE i \in at : \A j \in at : i <= j

\* Lines 119-141, 146-168: the lines after the marker's line and before the
\* next "===", of which the last 3 are kept.
last_3_after(lines, marker_line) ==
    LET data_section == SubSeq(lines, marker_line + 1, Len(lines))
        headings == {i \in 1..Len(data_section) : data_section[i].tag \in SectionHeadings}
        data_end == IF headings # {}
                    THEN (CHOOSE i \in headings : \A j \in headings : i <= j) - 1
                    ELSE Len(data_section)
        section_lines == SubSeq(data_section, 1, data_end)
        start_idx == IF Len(section_lines) >= 3 THEN Len(section_lines) - 3 ELSE 0
    IN SubSeq(section_lines, start_idx + 1, Len(section_lines))

extract_last_3_data_points(p) ==
    LET lines == p.historical_data
        last_3_lines ==
            IF find_marker(lines, "Bitcoin historical OHLC + Volume data") # 0
            THEN last_3_after(lines, find_marker(lines, "Bitcoin historical OHLC + Volume data"))
            ELSE IF find_marker(lines, "Bitcoin price data (timestamp, price in USD)") # 0
                 THEN last_3_after(lines, find_marker(lines, "Bitcoin price data (timestamp, price in USD)"))
                 ELSE <<>>
    IN IF last_3_lines = <<>> THEN <<Line("last_3", "No data points found in the prompt.", FALSE)>> ELSE last_3_lines

\* Line 58.
GeneratePrompt ==
    /\ main_pc = "prompt"
    /\ prompt' = <<generate_trading_recommendation_prompt(formatted_data[1])>>
    /\ main_pc' = "deliver"
    /\ UNCHANGED <<only_prompt, output_format, api_key_set, btc_data, fear_and_greed_data,
                   formatted_data, analysis, emitted, exit>>
    /\ UNCHANGED <<fetch_vars, calc_vars, tg_vars>>
    /\ UNCHANGED failed

\* Lines 60-64: only the prompt is printed.
PrintPrompt ==
    /\ main_pc = "deliver"
    /\ only_prompt
    /\ emitted' = Append(emitted, "prompt")
    /\ Stop("ok")
    /\ UNCHANGED <<only_prompt, output_format, api_key_set, btc_data, fear_and_greed_data,
                   formatted_data, prompt, analysis>>
    /\ UNCHANGED <<fetch_vars, calc_vars, tg_vars>>
    /\ UNCHANGED failed

\* Line 65: get_analysis_from_claude(..).await? returns Err.
GetAnalysisFails ==
    /\ main_pc = "deliver"
    /\ ~only_prompt
    /\ Stop("err")
    /\ UNCHANGED <<only_prompt, output_format, api_key_set, btc_data, fear_and_greed_data,
                   formatted_data, prompt, analysis, emitted>>
    /\ UNCHANGED <<fetch_vars, calc_vars, tg_vars>>
    /\ failed' = failed \cup {"get_analysis_from_claude"}

\* Line 65: it returns the analysis of the prompt.
GetAnalysisOk ==
    /\ main_pc = "deliver"
    /\ ~only_prompt
    /\ analysis' = <<[of |-> prompt[1],
                     last_3_data_points |-> extract_last_3_data_points(prompt[1])]>>
    /\ main_pc' = "send"
    /\ UNCHANGED <<only_prompt, output_format, api_key_set, btc_data, fear_and_greed_data,
                   formatted_data, prompt, emitted, exit>>
    /\ UNCHANGED <<fetch_vars, calc_vars, tg_vars>>
    /\ UNCHANGED failed

\* Line 68, output.rs 11-17: the analysis is printed.
SendOutputText ==
    /\ main_pc = "send"
    /\ output_format # "telegram"
    /\ emitted' = Append(emitted, "analysis")
    /\ Stop("ok")
    /\ UNCHANGED <<only_prompt, output_format, api_key_set, btc_data, fear_and_greed_data,
                   formatted_data, prompt, analysis>>
    /\ UNCHANGED <<fetch_vars, calc_vars, tg_vars>>
    /\ UNCHANGED failed

\* Line 68, output.rs 10: send_to_telegram delivers the analysis.
SendOutputTelegram ==
    /\ main_pc = "send"
    /\ output_format = "telegram"
    /\ emitted' = Append(emitted, "telegram")
    /\ Stop("ok")
    /\ UNCHANGED <<only_prompt, output_format, api_key_set, btc_data, fear_and_greed_data,
                   formatted_data, prompt, analysis>>
    /\ UNCHANGED <<fetch_vars, calc_vars, tg_vars>>
    /\ UNCHANGED failed

\* Line 68: send_to_telegram returns Err.
SendOutputFails ==
    /\ main_pc = "send"
    /\ output_format = "telegram"
    /\ Stop("err")
    /\ UNCHANGED <<only_prompt, output_format, api_key_set, btc_data, fear_and_greed_data,
                   formatted_data, prompt, analysis, emitted>>
    /\ UNCHANGED <<fetch_vars, calc_vars, tg_vars>>
    /\ failed' = failed \cup {"send_output"}

Next ==
    \/ ApiKeyMissing
    \/ ApiKeyRead
    \/ FetchBitcoinFails
    \/ FetchBitcoinOk
    \/ FetchFearGreedFails
    \/ FetchFearGreedOk
    \/ FormatPanics
    \/ FormatData
    \/ GeneratePrompt
    \/ PrintPrompt
    \/ GetAnalysisFails
    \/ GetAnalysisOk
    \/ SendOutputText
    \/ SendOutputTelegram
    \/ SendOutputFails

Spec == MainInit /\ [][Next]_vars

\* ------------------------------------------- claims on the report and the run
\* The series and the report of a run that has assembled its report.
Formatted == formatted_data # <<>>
SeriesLen == Len(btc_data[1].prices)
ReportLines == formatted_data[1]

\* The report carries a line of the indicator section with this text.
Present(tag) ==
    \E i \in 1..Len(ReportLines) :
        ReportLines[i].section = "indicators" /\ ReportLines[i].tag = tag

\* A pass goes over every candle of the series once, in ascending order, and
\* what is displayed of it are the last 5 candles, each with its own open time.
WholeSeriesPass(pass, prices) ==
    LET n == Len(prices)
    IN /\ pass = [i \in 1..n |-> i]
       /\ displayed(pass, prices) =
              [i \in 1..5 |-> [candle |-> n - 5 + i, date |-> <<prices[n - 5 + i][1]>>]]

\* C21: the pass behind every emitted indicator block takes every candle from
\* the first exactly once in ascending order, and the block lists the values
\* at the last 5 candles, each with that candle's timestamp.
C21_WholeSeriesPass ==
    Formatted =>
        LET data == btc_data[1]
            price_values == [i \in 1..Len(data.prices) |-> data.prices[i][2]]
            high_values == [i \in 1..Len(data.high_prices) |-> data.high_prices[i][2]]
            low_values == [i \in 1..Len(data.low_prices) |-> data.low_prices[i][2]]
        IN /\ Present("Simple Moving Averages (Last 5 periods):")
                  => WholeSeriesPass(enumerate_pass(price_values), data.prices)
           /\ Present("Average True Range (ATR) - Last 5 periods:")
                  => WholeSeriesPass(atr_pass(price_values, high_values, low_values),
                                     data.prices)

\* The candle and price lines of the report, in the order they are written.
DataLinesOf(lines) == SelectSeq(lines, LAMBDA l : l.tag \in {"candle", "price"})

LastThree(q) == SubSeq(q, Max(Len(q) - 3, 0) + 1, Len(q))

\* C24: the "LAST 3 DATA POINTS" section of the analysis holds the last three
\* data lines of the report, and reads "No data points found in the prompt."
\* only when the report has no data line.
C24_LastThreeDataLines ==
    analysis # <<>> =>
        LET data == DataLinesOf(ReportLines)
        IN analysis[1].last_3_data_points =
               IF data = <<>> THEN <<Line("last_3", "No data points found in the prompt.", FALSE)>> ELSE LastThree(data)

\* C5: an indicator is absent from the report of a series shorter than its
\* minimum length.
C5_AbsentBelowMinimum ==
    Formatted =>
        /\ SeriesLen < 20 => ~Present("Simple Moving Averages (Last 5 periods):")
        /\ SeriesLen < 200 => ~Present("SMA (50-period)") /\ ~Present("SMA (200-period)")
        /\ SeriesLen < 20 => ~Present("Exponential Moving Averages (Last 5 periods):")
        /\ SeriesLen < 200 => ~Present("EMA (50-period)") /\ ~Present("EMA (200-period)")
        /\ SeriesLen < 14 => ~Present("RSI With EMA (14-day) - Last 5 periods:")
        /\ SeriesLen < 35 => ~Present("MACD (12, 26, 9) - Last 5 periods:")
        /\ SeriesLen < 20 => ~Present("Bollinger Bands (20, 2) - Last 5 periods:")
        /\ SeriesLen < 2 => ~Present("On Balance Volume (OBV) - Last 5 periods:")
        /\ SeriesLen < 14 => ~Present("Average True Range (ATR) - Last 5 periods:")
        /\ SeriesLen < 1 => ~Present("Support level") /\ ~Present("Resistance level")

\* C6: an indicator is present in the report of a series that meets its
\* minimum length; OBV from 2 candles on.
C6_PresentFromMinimum ==
    Formatted =>
        /\ SeriesLen >= 20 => Present("Simple Moving Averages (Last 5 periods):")
        /\ SeriesLen >= 20 => Present("Exponential Moving Averages (Last 5 periods):")
        /\ SeriesLen >= 20 => Present("Bollinger Bands (20, 2) - Last 5 periods:")
        /\ SeriesLen >= 14 => Present("RSI With EMA (14-day) - Last 5 periods:")
        /\ SeriesLen >= 35 => Present("MACD (12, 26, 9) - Last 5 periods:")
        /\ SeriesLen >= 14 => Present("Average True Range (ATR) - Last 5 periods:")
        /\ SeriesLen >= 1 => Present("Support level") /\ Present("Resistance level")
        /\ (SeriesLen >= 2 /\ Len(btc_data[1].volumes) = SeriesLen)
               => Present("On Balance Volume (OBV) - Last 5 periods:")

\* C7: format_data_for_analysis returns a report for every series and every
\* list of sentiment points it is called with.
C7_FormatNeverFails ==
    (btc_data # <<>> /\ fear_and_greed_data # <<>> /\ main_pc # "format") => Formatted

\* C8: no number printed in the report is NaN or infinite.
C8_NoZeroDenominator ==
    Formatted => \A i \in 1..Len(ReportLines) : ~ReportLines[i].nan

\* The place of a section in the fixed order; the listing that stands in for
\* the candles of an empty series counts as the raw data.
SectionRank(section) ==
    CASE section = "summary" -> 1
      [] section = "recent" -> 2
      [] section = "fallback" -> 2
      [] section = "indicators" -> 3
      [] section = "sentiment" -> 4

HasSection(section) == \E i \in 1..Len(ReportLines) : ReportLines[i].section = section

\* C9: the sections of every report come in the order summary, recent
\* candles, indicators, sentiment; indicators and sentiment are in every
\* report, summary and recent candles in every report of a non-empty series.
C9_SectionOrder ==
    Formatted =>
        /\ \A i \in 1..(Len(ReportLines) - 1) :
               SectionRank(ReportLines[i].section) <= SectionRank(ReportLines[i + 1].section)
        /\ HasSection("indicators") /\ HasSection("sentiment")
        /\ SeriesLen > 0 => HasSection("summary") /\ HasSection("recent")

C9_Witness ==
    /\ Formatted
    /\ SeriesLen >= 35
    /\ Len(fear_and_greed_data[1]) >= 1
    /\ HasSection("summary") /\ HasSection("recent")
    /\ HasSection("indicators") /\ HasSection("sentiment")

\* C10: the run goes fetch, fetch, assemble, in that order; a failed fetch
\* ends it with an error and no report, prompt or output.
C10_SequentialRun ==
    /\ fear_and_greed_data # <<>> => btc_data # <<>>
    /\ Formatted => btc_data # <<>> /\ fear_and_greed_data # <<>>
    /\ prompt # <<>> => Formatted
    /\ (analysis # <<>> \/ emitted # <<>>) => prompt # <<>>
    /\ (failed \cap {"fetch_bitcoin_trading_data", "fetch_fear_greed_index_data"} # {})
           => /\ exit = "err"
              /\ formatted_data = <<>>
              /\ prompt = <<>>
              /\ analysis = <<>>
              /\ emitted = <<>>

C10_Witness ==
    /\ "fetch_fear_greed_index_data" \in failed
    /\ btc_data # <<>>
    /\ exit = "err"

GoldenCross == "Long-term Trend: Bullish (50 above 200, Golden Cross active)"
DeathCross == "Long-term Trend: Bearish (50 below 200, Death Cross active)"

\* The lines of the report that carry one of the two cross labels.
CrossLines == {i \in 1..Len(ReportLines) : ReportLines[i].tag \in {GoldenCross, DeathCross}}

\* The sum of the last k closes of the series.
LastCloses(k) ==
    LET closes == [i \in 1..SeriesLen |-> btc_data[1].prices[i][2]]
    IN SumRange(closes, SeriesLen - k + 1, SeriesLen)

\* C17: the report of a series of 200 candles or more carries exactly one
\* cross label, the golden one when SMA(50) is above SMA(200) and the death
\* one when it is below; the report of a shorter series carries neither.
C17_CrossLabel ==
    Formatted =>
        /\ SeriesLen < 200 => CrossLines = {}
        /\ SeriesLen >= 200 =>
               /\ Cardinality(CrossLines) = 1
               /\ LastCloses(50) * 200 > LastCloses(200) * 50 => Present(GoldenCross)
               /\ LastCloses(50) * 200 < LastCloses(200) * 50 => Present(DeathCross)

C17_Witness ==
    /\ Formatted
    /\ SeriesLen >= 200
    /\ LastCloses(50) * 200 > LastCloses(200) * 50
    /\ Present(GoldenCross)

\* C23: once the series is built no step of the run changes it: the report
\* is assembled from it and every one of its sequences stays as it was.
C23_SeriesImmutable == [][btc_data # <<>> => btc_data' = btc_data]_vars

C23_Witness ==
    /\ Formatted
    /\ SeriesLen >= 35
    /\ \E i \in 1..Len(ReportLines) : ReportLines[i].tag = "highest"
    /\ Present("MACD (12, 26, 9) - Last 5 periods:")

\* =========================================================================
\* Single functions, each applied to inputs of its own
\* =========================================================================
Input(fn, prices, volumes, nums, klines) ==
    [fn |-> fn, prices |-> prices, volumes |-> volumes, nums |-> nums, klines |-> klines,
     response |-> <<>>]

\* The input of a function that sends a request: what the remote end answers.
InputResponse(fn, response) == [NoInput EXCEPT !.fn = fn, !.response = <<response>>]

\* The sequences over S of length lo..hi.
SeqsBetween(S, lo, hi) == {q \in SeqsUpTo(S, hi) : Len(q) >= lo}

\* Close prices and volumes of up to MaxCalcLen candles; the volumes are
\* 100 throughout, or 100, 200, 300, ...
ObvInputs ==
    {Input("obv", prices, [i \in 1..Len(prices) |-> 100 * (IF rising THEN i ELSE 1)],
           <<>>, <<>>) :
        prices \in SeqsBetween(10..13, 1, MaxCalcLen), rising \in BOOLEAN}

\* technical_analysis.rs 700-720: the whole obv_values vector.
obv_series(price_values, volume_values) ==
    [i \in 1..Len(price_values) |-> obv_values(price_values, volume_values, i)]

\* Close prices of up to MaxCalcLen candles, or none.
SupportResistanceInputs ==
    {Input("support_resistance", prices, <<>>, <<>>, <<>>) :
        prices \in SeqsBetween({1, 3, 5, 7, 9}, 0, MaxCalcLen)}

\* Iterator::min_by and max_by with |a, b| a.partial_cmp(b).unwrap(): of
\* several equal elements min_by keeps the first and max_by the last.
RECURSIVE min_by(_)
min_by(s) ==
    IF Len(s) = 1 THEN s[1]
    ELSE LET acc == min_by(SubSeq(s, 1, Len(s) - 1))
         IN IF acc > s[Len(s)] THEN s[Len(s)] ELSE acc

RECURSIVE max_by(_)
max_by(s) ==
    IF Len(s) = 1 THEN s[1]
    ELSE LET acc == max_by(SubSeq(s, 1, Len(s) - 1))
         IN IF acc > s[Len(s)] THEN acc ELSE s[Len(s)]

\* Mutant: the first and the last price of the series.
calculate_support_resistance_ends(prices) ==
    IF prices = <<>> THEN <<0, 0>> ELSE <<prices[1], prices[Len(prices)]>>

\* technical_analysis.rs 876-886.
calculate_support_resistance(prices) ==
    IF prices = <<>> THEN <<0, 0>> ELSE <<min_by(prices), max_by(prices)>>

\* An RSI value, 0 to 100.
RsiInputs == {Input("rsi", <<>>, <<>>, <<rsi_val>>, <<>>) : rsi_val \in 0..100}

\* Mutant: the thresholds themselves count as overbought and oversold.
rsi_interpretation_inclusive(rsi_val) ==
    IF rsi_val >= 70 THEN "Overbought (>70)"
    ELSE IF rsi_val <= 30 THEN "Oversold (<30)"
    ELSE "Neutral (30-70)"

\* technical_analysis.rs 504-510.
rsi_interpretation(rsi_val) ==
    IF rsi_val > 70 THEN "Overbought (>70)"
    ELSE IF rsi_val < 30 THEN "Oversold (<30)"
    ELSE "Neutral (30-70)"

\* macd and signal of the last and of the previous period.
MacdInputs ==
    {Input("macd", <<>>, <<>>, <<last_macd, last_signal, prev_macd, prev_signal>>, <<>>) :
        last_macd \in -1..1, last_signal \in -1..1,
        prev_macd \in -1..1, prev_signal \in -1..1}

\* Mutant: the previous period is not looked at.
macd_signal_current_only(last_macd, last_signal, prev_macd, prev_signal) ==
    IF last_macd > last_signal
    THEN "Signal: Bullish crossover (MACD crossed above Signal)"
    ELSE "Signal: Bearish crossover (MACD crossed below Signal)"

\* technical_analysis.rs 592-610.
macd_signal(last_macd, last_signal, prev_macd, prev_signal) ==
    LET current_above_signal == last_macd > last_signal
        prev_above_signal == prev_macd > prev_signal
    IN IF current_above_signal /\ ~prev_above_signal
       THEN "Signal: Bullish crossover (MACD crossed above Signal)"
       ELSE IF ~current_above_signal /\ prev_above_signal
       THEN "Signal: Bearish crossover (MACD crossed below Signal)"
       ELSE IF current_above_signal
       THEN "Signal: Bullish momentum continues"
       ELSE "Signal: Bearish momentum continues"

\* An ATR value with the close price of its candle: prices of 20 and 100
\* put ATR values on both thresholds, a price of 0 makes the percentage
\* infinite or NaN.
AtrInputs ==
    {Input("atr", <<>>, <<>>, <<atr_val, price>>, <<>>) :
        atr_val \in 0..7, price \in {0, 20, 100}}

\* atr_val / price * 100.0 > threshold, for atr_val >= 0 and price >= 0:
\* x / 0.0 is infinite for x > 0 and NaN for x = 0, and NaN > t is false.
atr_percent_above(atr_val, price, threshold) ==
    IF price = 0 THEN atr_val > 0 ELSE atr_val * 100 > threshold * price

\* Mutant: a percentage on a threshold falls into the band above it.
volatility_band_inclusive(atr_val, price) ==
    IF price # 0 /\ atr_val * 100 >= 5 * price THEN "High (ATR > 5% of price)"
    ELSE IF price # 0 /\ atr_val * 100 >= 3 * price THEN "Medium (ATR 3-5% of price)"
    ELSE IF price = 0 /\ atr_val > 0 THEN "High (ATR > 5% of price)"
    ELSE "Low (ATR < 3% of price)"

\* technical_analysis.rs 833-842.
volatility_band(atr_val, price) ==
    IF atr_percent_above(atr_val, price, 5) THEN "High (ATR > 5% of price)"
    ELSE IF atr_percent_above(atr_val, price, 3) THEN "Medium (ATR 3-5% of price)"
    ELSE "Low (ATR < 3% of price)"

\* ------------------------------------------- fetch_fear_greed_index_data
\* A message is a sequence of pieces of text; format! joins them.
StatusFailed == <<"API request failed with status: ">>
FetchingFailed == <<"Error fetching Fear & Greed Index: ">>

\* What reqwest says of a request that could not be sent and of a body that
\* is no FearGreedResponse.
SendErrors == {<<"error sending request">>}
DecodeErrors == {<<"error decoding response body">>}
StatusCodes == {<<"500 Internal Server Error">>, <<"429 Too Many Requests">>}

\* metadata.error is any text the provider chooses to send.
ProviderErrors ==
    {<<"rate limit exceeded">>, <<"error sending request">>,
     StatusFailed \o <<"500 Internal Server Error">>}

\* What the provider's endpoint may answer a request with.
SendError(e) == [kind |-> "send_error", detail |-> e, data |-> <<>>, error |-> <<>>]
BadStatus(code) == [kind |-> "status", detail |-> code, data |-> <<>>, error |-> <<>>]
Undecodable(e) == [kind |-> "undecodable", detail |-> e, data |-> <<>>, error |-> <<>>]
FearGreedResponse(data, error) ==
    [kind |-> "body", detail |-> <<>>, data |-> data, error |-> error]

FearGreedAnswers ==
    {SendError(e) : e \in SendErrors}
    \cup {BadStatus(code) : code \in StatusCodes}
    \cup {Undecodable(e) : e \in DecodeErrors}
    \cup {FearGreedResponse(data, error) :
            data \in {<<>>, <<FearGreedData(TRUE, 1)>>},
            error \in {<<>>} \cup {<<e>> : e \in ProviderErrors}}

FearGreedInputs == {InputResponse("fear_greed", answer) : answer \in FearGreedAnswers}

\* Result<_, Box<dyn Error>>: every Err of these functions is a boxed String,
\* so an Err is its message and nothing else.
FngOk(value) == [status |-> "Ok", value |-> value, message |-> <<>>]
FngErr(message) == [status |-> "Err", value |-> <<>>, message |-> message]

\* data_fetcher.rs 201-213.
fetch_fear_greed_index(answer) ==
    CASE answer.kind = "send_error" -> FngErr(answer.detail)
      [] answer.kind = "status" -> FngErr(StatusFailed \o answer.detail)
      [] answer.kind = "undecodable" -> FngErr(answer.detail)
      [] OTHER -> FngOk(answer)

\* data_fetcher.rs 215-227.
fetch_fear_greed_index_data(answer) ==
    LET result == fetch_fear_greed_index(answer)
    IN IF result.status = "Ok"
       THEN IF result.value.error # <<>>
            THEN FngErr(FetchingFailed \o result.value.error[1])
            ELSE FngOk(result.value.data)
       ELSE FngErr(FetchingFailed \o result.message)

\* ---------------------------------------------------- pages to convert
\* The fields of the first candle of a page; those of candle i are greater
\* by i - 1.
CandleFields == <<7, 120, 45, -4, 19, 105, 8>>

\* How a row is encoded: every field as a JSON number or every field as a
\* string, and one of the fields 1..6 (none when bad_field = 0) replaced by a
\* string that is no number or by null.
RowEncodings ==
    [numbers : BOOLEAN, bad_field : 0..6, bad_value : {BadStr, Null}]
    \ {e \in [numbers : BOOLEAN, bad_field : 0..6, bad_value : {BadStr, Null}] :
          e.bad_field = 0 /\ e.bad_value = Null}

EncodedRow(i, e) ==
    [j \in 1..7 |->
        IF j = e.bad_field THEN e.bad_value
        ELSE IF e.numbers THEN Num(CandleFields[j] + i - 1)
        ELSE Str(CandleFields[j] + i - 1)]

ConvertInputs ==
    {Input("convert", <<>>, <<>>, <<>>, [i \in 1..Len(es) |-> EncodedRow(i, es[i])]) :
        es \in SeqsBetween(RowEncodings, 1, MaxCalcRows)}

\* Pages whose rows differ in length: row i has the first few of the fields
\* of candle i, all as JSON numbers.
RowLengths == {0, 5, 6, 7}

RaggedRow(i, n) == [j \in 1..n |-> Num(CandleFields[j] + i - 1)]

RaggedInputs ==
    {Input("convert_ragged", <<>>, <<>>, <<>>, [i \in 1..Len(ns) |-> RaggedRow(i, ns[i])]) :
        ns \in SeqsBetween(RowLengths, 0, MaxCalcRows + 1)}

\* ------------------------------------------------------------ the calls
\* What every call leaves alone.
Applies(value) ==
    /\ calc_pc = "start"
    /\ calc_out' = <<value>>
    /\ calc_pc' = "done"
    /\ UNCHANGED <<calc_in, fetch_vars, main_vars, tg_vars>>

ComputeObv ==
    /\ calc_in.fn = "obv"
    /\ calc_in.prices # <<>> /\ calc_in.volumes # <<>>
    /\ Len(calc_in.prices) = Len(calc_in.volumes)
    /\ Applies(obv_series(calc_in.prices, calc_in.volumes))

ComputeSupportResistance ==
    /\ calc_in.fn = "support_resistance"
    /\ Applies(calculate_support_resistance(calc_in.prices))

InterpretRsi ==
    /\ calc_in.fn = "rsi"
    /\ Applies(rsi_interpretation(calc_in.nums[1]))

InterpretMacd ==
    /\ calc_in.fn = "macd"
    /\ Applies(macd_signal(calc_in.nums[1], calc_in.nums[2], calc_in.nums[3], calc_in.nums[4]))

InterpretAtr ==
    /\ calc_in.fn = "atr"
    /\ Applies(volatility_band(calc_in.nums[1], calc_in.nums[2]))

ConvertBinanceData ==
    /\ calc_in.fn \in {"convert", "convert_ragged"}
    /\ Applies(convert_binance_data(calc_in.klines))

FetchFearGreedIndexData ==
    /\ calc_in.fn = "fear_greed"
    /\ Applies(fetch_fear_greed_index_data(calc_in.response[1]))

CalcInputs ==
    ObvInputs \cup SupportResistanceInputs \cup RsiInputs \cup MacdInputs \cup AtrInputs
    \cup FearGreedInputs \cup ConvertInputs \cup RaggedInputs

CalcInit ==
    /\ calc_pc = "start"
    /\ calc_in \in CalcInputs
    /\ calc_out = <<>>
    /\ FetchStart
    /\ MainIdle
    /\ TelegramIdle

CalcNext ==
    \/ ComputeObv
    \/ ComputeSupportResistance
    \/ InterpretRsi
    \/ InterpretMacd
    \/ InterpretAtr
    \/ FetchFearGreedIndexData
    \/ ConvertBinanceData

SpecCalc == CalcInit /\ [][CalcNext]_vars

\* --------------------------------------------- claims on single functions
\* The value a function returned for the input it was given.
Applied(fn) == calc_pc = "done" /\ calc_in.fn = fn
Out == calc_out[1]

\* C13: OBV starts at 0 and, candle by candle, goes up by the candle's volume
\* when the close rose, down by it when the close fell, and stays when the
\* close is unchanged; closes 10, 12, 11, 11, 13 with volumes of 100 give
\* 0, 100, 0, 0, 100.
C13_ObvRunningSum ==
    Applied("obv") =>
        LET p == calc_in.prices
            v == calc_in.volumes
        IN /\ Len(Out) = Len(p)
           /\ Out[1] = 0
           /\ \A i \in 2..Len(p) :
                  /\ p[i] > p[i - 1] => Out[i] = Out[i - 1] + v[i]
                  /\ p[i] < p[i - 1] => Out[i] = Out[i - 1] - v[i]
                  /\ p[i] = p[i - 1] => Out[i] = Out[i - 1]
           /\ (p = <<10, 12, 11, 11, 13>> /\ v = <<100, 100, 100, 100, 100>>)
                  => Out = <<0, 100, 0, 0, 100>>

C13_Witness ==
    /\ Applied("obv")
    /\ calc_in.prices = <<10, 12, 11, 11, 13>>
    /\ calc_in.volumes = <<100, 100, 100, 100, 100>>
    /\ Out = <<0, 100, 0, 0, 100>>

C15_RsiLabel ==
    Applied("rsi") =>
        LET rsi_val == calc_in.nums[1]
        IN /\ Out \in {"Overbought (>70)", "Oversold (<30)", "Neutral (30-70)"}
           /\ Out = "Overbought (>70)" <=> rsi_val > 70
           /\ Out = "Oversold (<30)" <=> rsi_val < 30
           /\ rsi_val \in {30, 70} => Out = "Neutral (30-70)"

C15_Witness ==
    /\ Applied("rsi")
    /\ calc_in.nums[1] = 70
    /\ Out = "Neutral (30-70)"

\* C16: a bullish crossover is reported exactly when macd - signal is
\* positive now and was not in the previous period, a bearish one exactly
\* when it is not positive now and was before, a continuation otherwise.
C16_MacdCrossover ==
    Applied("macd") =>
        LET now == calc_in.nums[1] - calc_in.nums[2] > 0
            before == calc_in.nums[3] - calc_in.nums[4] > 0
        IN /\ Out \in {"Signal: Bullish crossover (MACD crossed above Signal)",
                       "Signal: Bearish crossover (MACD crossed below Signal)",
                       "Signal: Bullish momentum continues",
                       "Signal: Bearish momentum continues"}
           /\ Out = "Signal: Bullish crossover (MACD crossed above Signal)"
                  <=> (now /\ ~before)
           /\ Out = "Signal: Bearish crossover (MACD crossed below Signal)"
                  <=> (~now /\ before)
           /\ Out = "Signal: Bullish momentum continues" <=> (now /\ before)
           /\ Out = "Signal: Bearish momentum continues" <=> (~now /\ ~before)

C16_Witness ==
    /\ Applied("macd")
    /\ calc_in.nums = <<1, 0, 0, 0>>
    /\ Out = "Signal: Bullish crossover (MACD crossed above Signal)"

\* C18: an ATR above 5% of the candle's close is in the high band, one above
\* 3% and at most 5% in the medium band, one of at most 3% in the low band.
C18_AtrBand ==
    Applied("atr") =>
        LET atr_val == calc_in.nums[1]
            price == calc_in.nums[2]
        IN /\ Out \in {"High (ATR > 5% of price)", "Medium (ATR 3-5% of price)",
                       "Low (ATR < 3% of price)"}
           /\ price > 0 =>
                  /\ Out = "High (ATR > 5% of price)" <=> atr_val * 100 > 5 * price
                  /\ Out = "Medium (ATR 3-5% of price)"
                         <=> (atr_val * 100 > 3 * price /\ atr_val * 100 <= 5 * price)
                  /\ Out = "Low (ATR < 3% of price)" <=> atr_val * 100 <= 3 * price

C18_Witness ==
    /\ Applied("atr")
    /\ calc_in.nums = <<1, 20>>
    /\ Out = "Medium (ATR 3-5% of price)"

\* What fetch_fear_greed_index_data returns when the request itself fails.
RequestFailureOutcomes ==
    {fetch_fear_greed_index_data(answer) :
        answer \in {a \in FearGreedAnswers : a.kind # "body"}}

\* C19: an error the provider reports in the metadata comes back as an error
\* that no failure of the request comes back as; the sentiment points come
\* back only from a request that succeeded with no error in the metadata.
C19_ProviderErrorDistinct ==
    Applied("fear_greed") =>
        LET answer == calc_in.response[1]
        IN /\ (answer.kind = "body" /\ answer.error # <<>>) =>
                  /\ Out.status = "Err"
                  /\ Out \notin RequestFailureOutcomes
           /\ Out.status = "Ok" =>
                  /\ answer.kind = "body"
                  /\ answer.error = <<>>
                  /\ Out.value = answer.data

\* A field that holds no number: a string that is not the text of one, or a
\* value that is neither a number nor a string.
Unparsable(field) ==
    \/ field.k \notin {"Number", "String"}
    \/ field.k = "String" /\ field.text = BadStr.text

\* C20: a candle field converts to the number it holds, whether it comes as
\* a JSON number or as the decimal text of that number; a field that holds
\* no number converts to 0.0 and every other field of the row and every
\* other row of the page is converted all the same.
C20_FieldParsingTolerant ==
    Applied("convert") =>
        LET klines == calc_in.klines
        IN /\ Len(Out.ohlc_data) = Len(klines)
           /\ \A i \in 1..Len(klines) : \A j \in 1..6 :
                  LET field == klines[i][j]
                      value == Out.ohlc_data[i][j]
                  IN /\ Unparsable(field) => value = 0
                     /\ (~Unparsable(field) /\ field.k = "Number") => value = field.v
                     /\ (~Unparsable(field) /\ field.k = "String")
                            => Decimal(value) = field.text
                     /\ ~Unparsable(field) => value = CandleFields[j] + i - 1

C20_Witness ==
    /\ Applied("convert")
    /\ Len(calc_in.klines) = 2
    /\ calc_in.klines[1][5] = BadStr
    /\ calc_in.klines[1][2] = Str(120)
    /\ calc_in.klines[2][2] = Num(121)
    /\ Out.ohlc_data = <<<<7, 120, 45, -4, 0, 105>>, <<8, 121, 46, -3, 20, 106>>>>

\* The rows of the page that have 6 fields or more, in the order of the page.
FullRows == SelectSeq(calc_in.klines, LAMBDA kline : Len(kline) >= 6)

\* C30: the six sequences convert_binance_data returns have one entry for
\* each row of 6 fields or more, in the order of the rows, and at each index
\* all six carry the open_time of that row; a shorter row adds to none.
C30_SequencesAligned ==
    Applied("convert_ragged") =>
        LET n == Len(FullRows)
        IN /\ Len(Out.prices) = n
           /\ Len(Out.volumes) = n
           /\ Len(Out.high_prices) = n
           /\ Len(Out.low_prices) = n
           /\ Len(Out.open_prices) = n
           /\ Len(Out.ohlc_data) = n
           /\ \A i \in 1..n :
                  /\ Out.prices[i][1] = FullRows[i][1].v
                  /\ Out.volumes[i][1] = FullRows[i][1].v
                  /\ Out.high_prices[i][1] = FullRows[i][1].v
                  /\ Out.low_prices[i][1] = FullRows[i][1].v
                  /\ Out.open_prices[i][1] = FullRows[i][1].v
                  /\ Out.ohlc_data[i][1] = FullRows[i][1].v

C30_Witness ==
    /\ Applied("convert_ragged")
    /\ Len(calc_in.klines) = 3
    /\ Len(calc_in.klines[1]) = 6
    /\ Len(calc_in.klines[2]) = 5
    /\ Len(calc_in.klines[3]) = 7
    /\ Len(Out.prices) = 2
    /\ Len(Out.volumes) = 2
    /\ Out.volumes[2][1] = 9

\* =========================================================================
\* output.rs: send_to_telegram
\* =========================================================================
\* The bytes of an analysis: an ASCII letter, a newline, and the two bytes of
\* a two-byte UTF-8 character.
Characters == {<<"a">>, <<"\n">>, <<"C3", "A9">>}

\* Every &str of MaxTextChars characters or fewer, as its bytes.
Texts == {Flatten(cs) : cs \in SeqsUpTo(Characters, MaxTextChars)}

\* str::is_char_boundary(k), k a byte offset from 0.
is_char_boundary(text, k) ==
    \/ k = 0
    \/ k = Len(text)
    \/ k < Len(text) /\ text[k + 1] # "A9"

\* potential_chunk.rfind('\n').unwrap_or(0): the offset of the last newline
\* of the chunk, 0 when it has none.
last_newline_pos(potential_chunk) ==
    LET at == {i \in 1..Len(potential_chunk) : potential_chunk[i] = "\n"}
    IN IF at = {} THEN 0 ELSE (CHOOSE i \in at : \A j \in at : j <= i) - 1

\* Mutant: everything that remains goes into one chunk.
current_chunk_size_all(text, from) == Len(text) - from

\* Mutant: the last newline is a break point wherever it is.
current_chunk_size_any_newline(text, from) ==
    LET remaining == Len(text) - from
    IN IF remaining < max_chunk_length THEN remaining
       ELSE last_newline_pos(SubSeq(text, from + 1,
                                    from + Min(max_chunk_length, remaining)))

\* Lines 64-81. A newline is a break point when it is more than 100 bytes
\* into the chunk (line 74), a bound scaled here with the chunk size.
current_chunk_size(text, from) ==
    LET remaining == Len(text) - from
    IN IF remaining < max_chunk_length THEN remaining
       ELSE LET potential_chunk == SubSeq(text, from + 1,
                                          from + Min(max_chunk_length, remaining))
            IN IF last_newline_pos(potential_chunk) > max_chunk_length \div 4
               THEN last_newline_pos(potential_chunk)
               ELSE Min(max_chunk_length, remaining)

\* Mutant: a newline at the head of a chunk is left out of it.
chunk_at_trimmed(text, from, size) ==
    LET chunk == SubSeq(text, from + 1, from + size)
    IN IF chunk # <<>> /\ chunk[1] = "\n" THEN Tail(chunk) ELSE chunk

\* Line 84: &analysis[position..position + current_chunk_size].
chunk_at(text, from, size) == SubSeq(text, from + 1, from + size)

\* Lines 69 and 84: one of the two slices of this iteration panics, which a
\* slice does unless both its offsets are character boundaries.
iteration_panics(text, from) ==
    \/ ~is_char_boundary(text, from)
    \/ /\ ~(Len(text) - from < max_chunk_length)
       /\ ~is_char_boundary(text, from + Min(max_chunk_length, Len(text) - from))
    \/ ~is_char_boundary(text, from + current_chunk_size(text, from))

TelegramInit ==
    /\ tg_pc = "start"
    /\ tg_analysis \in Texts
    /\ position = 0
    /\ tg_sent = <<>>
    /\ tg_pauses = 0
    /\ tg_result = "running"
    /\ FetchStart
    /\ MainIdle
    /\ CalcIdle

TelegramReturns(result) ==
    /\ tg_pc' = "done"
    /\ tg_result' = result
    /\ UNCHANGED <<tg_analysis, position, tg_sent, tg_pauses>>
    /\ UNCHANGED <<fetch_vars, main_vars, calc_vars>>

\* Lines 24-27: TELEGRAM_API_KEY or TELEGRAM_CHAT_ID is not set.
TelegramEnvMissing ==
    /\ tg_pc = "start"
    /\ TelegramReturns("panic_env")

\* Lines 50-54: the header could not be sent.
SendHeaderFails ==
    /\ tg_pc = "start"
    /\ TelegramReturns("err")

\* Lines 36-61: the header is sent, the loop is entered at position 0.
SendHeader ==
    /\ tg_pc = "start"
    /\ tg_pc' = "loop"
    /\ position' = 0
    /\ UNCHANGED <<tg_analysis, tg_sent, tg_pauses, tg_result>>
    /\ UNCHANGED <<fetch_vars, main_vars, calc_vars>>

\* Lines 63, 113-116: nothing is left to send.
ChunkLoopExit ==
    /\ tg_pc = "loop"
    /\ ~(position < Len(tg_analysis))
    /\ TelegramReturns("ok")

\* Lines 69, 84: a slice of the analysis ends inside a character.
ChunkSlicePanics ==
    /\ tg_pc = "loop"
    /\ position < Len(tg_analysis)
    /\ iteration_panics(tg_analysis, position)
    /\ TelegramReturns("panic_slice")

\* Lines 98-102: the chunk could not be sent.
SendChunkFails ==
    /\ tg_pc = "loop"
    /\ position < Len(tg_analysis)
    /\ ~iteration_panics(tg_analysis, position)
    /\ TelegramReturns("err")

\* Lines 64-110: one chunk is cut, sent and stepped over; the pause follows
\* unless it was the last.
SendChunk ==
    /\ tg_pc = "loop"
    /\ position < Len(tg_analysis)
    /\ ~iteration_panics(tg_analysis, position)
    /\ LET size == current_chunk_size(tg_analysis, position)
       IN /\ tg_sent' = Append(tg_sent, chunk_at(tg_analysis, position, size))
          /\ position' = position + size
          /\ tg_pauses' = IF position + size < Len(tg_analysis) THEN tg_pauses + 1
                          ELSE tg_pauses
    /\ UNCHANGED <<tg_pc, tg_analysis, tg_result>>
    /\ UNCHANGED <<fetch_vars, main_vars, calc_vars>>

TelegramNext ==
    \/ TelegramEnvMissing
    \/ SendHeaderFails
    \/ SendHeader
    \/ ChunkLoopExit
    \/ ChunkSlicePanics
    \/ SendChunkFails
    \/ SendChunk

SpecTelegram == TelegramInit /\ [][TelegramNext]_vars

\* ------------------------------------------------ claims on the delivery
\* C22: every chunk sent is non-empty and no longer than max_chunk_length.
C22_ChunksBounded ==
    \A i \in 1..Len(tg_sent) :
        Len(tg_sent[i]) >= 1 /\ Len(tg_sent[i]) <= max_chunk_length

C22_Witness ==
    /\ tg_result = "ok"
    /\ Len(tg_sent) >= 3
    /\ Len(tg_sent[1]) = max_chunk_length
    /\ Len(tg_sent[2]) < max_chunk_length

BytesSent == Len(Flatten(tg_sent))

C29_NoCutInsideCharacter == tg_result # "panic_slice"

====
